---------------------------- MODULE Spec2Model ----------------------------
(***************************************************************************)
(* Model of the r.obinexus.org registry client, pysemverx_registry.py:     *)
(* the SemVerX version model, the FaultState ladder, Registry.fetch,       *)
(* Registry.install, Registry.resolve_dag, Registry.subscribe and          *)
(* Registry.unsubscribe.  The remote registry is the environment: its      *)
(* metadata is fixed in Init, its status codes and the bytes it serves are *)
(* chosen anew for every request.                                          *)
(*                                                                         *)
(* Python strings are sequences of one-character strings, so that          *)
(* str.split, int() and the enum lookups are computed as Python computes   *)
(* them.                                                                   *)
(***************************************************************************)
EXTENDS Integers, Sequences, FiniteSets, TLC

VARIABLES
    reg,        \* the remote registry's metadata: package id -> response data
    stack,      \* call stack of Registry.install, outermost frame first
    log,        \* requests and install steps of the current top-level call
    outcome,    \* how the last top-level call ended
    observers,  \* Registry.observers: package id -> list of callbacks
    remote,     \* the remote side's observer ids: id -> [pkg, state]
    threads     \* each caller of subscribe/unsubscribe: position and locals

vars == <<reg, stack, log, outcome, observers, remote, threads>>

(***************************************************************************)
(* Bounds of the model.                                                    *)
(***************************************************************************)
\* fault values the remote reports are 0..MaxFault (17 is SYSTEM_PANIC)
MaxFault == 18
\* depth of the install recursion at which the interpreter gives up
MaxDepth == 4
\* observer ids the remote side issues
MaxObservers == 2
\* major, minor and patch of the versions that are formatted are 0..MaxNumber
MaxNumber == 10
\* callbacks in one package's list beyond which no further subscribe is started
MaxCallbacks == 2

(***************************************************************************)
(* Strings.                                                                *)
(***************************************************************************)
Digits == <<"0", "1", "2", "3", "4", "5", "6", "7", "8", "9">>

IsDigit(c) == \E i \in 1..Len(Digits) : Digits[i] = c

DigitValue(c) == (CHOOSE i \in 1..Len(Digits) : Digits[i] = c) - 1

HasChar(s, c) == \E i \in 1..Len(s) : s[i] = c

FirstIndex(s, c) == CHOOSE i \in 1..Len(s) : s[i] = c /\ \A j \in 1..(i - 1) : s[j] # c

\* str.split(sep) for a one-character separator: n separators give n+1 parts
RECURSIVE Split(_, _)
Split(s, sep) ==
    IF ~HasChar(s, sep)
    THEN <<s>>
    ELSE LET i == FirstIndex(s, sep)
         IN  <<SubSeq(s, 1, i - 1)>> \o Split(SubSeq(s, i + 1, Len(s)), sep)

\* sep.join(parts)
RECURSIVE Join(_, _)
Join(parts, sep) ==
    IF parts = <<>> THEN <<>>
    ELSE IF Len(parts) = 1 THEN parts[1]
    ELSE parts[1] \o <<sep>> \o Join(Tail(parts), sep)

\* str.strip() of the blanks int() ignores
RECURSIVE Strip(_)
Strip(s) ==
    IF s = <<>> THEN s
    ELSE IF Head(s) = " " THEN Strip(Tail(s))
    ELSE IF s[Len(s)] = " " THEN Strip(SubSeq(s, 1, Len(s) - 1))
    ELSE s

\* the value of a string of decimal digits
RECURSIVE DigitsValue(_)
DigitsValue(s) ==
    IF s = <<>> THEN 0
    ELSE 10 * DigitsValue(SubSeq(s, 1, Len(s) - 1)) + DigitValue(s[Len(s)])

\* digits, with single underscores allowed between two digits
IsDigitRun(s) ==
    /\ s # <<>>
    /\ \A i \in 1..Len(s) : IsDigit(s[i]) \/ s[i] = "_"
    /\ IsDigit(s[1]) /\ IsDigit(s[Len(s)])
    /\ \A i \in 1..(Len(s) - 1) : ~(s[i] = "_" /\ s[i + 1] = "_")

DropUnderscores(s) == SelectSeq(s, LAMBDA c : c # "_")

\* int(text): blanks around, an optional sign, then digits
IntParse(text) ==
    LET t    == Strip(text)
        sgn  == IF t # <<>> /\ Head(t) \in {"+", "-"} THEN Head(t) ELSE ""
        body == IF sgn = "" THEN t ELSE Tail(t)
    IN  IF IsDigitRun(body)
        THEN [ok |-> TRUE,
              value |-> IF sgn = "-" THEN 0 - DigitsValue(DropUnderscores(body))
                        ELSE DigitsValue(DropUnderscores(body))]
        ELSE [ok |-> FALSE, error |-> [type |-> "ValueError", kind |-> "non_numeric"]]

\* str(n) of an integer
RECURSIVE NatStr(_)
NatStr(n) ==
    IF n < 10 THEN <<Digits[n + 1]>>
    ELSE NatStr(n \div 10) \o <<Digits[(n % 10) + 1]>>

IntStr(n) == IF n < 0 THEN <<"-">> \o NatStr(0 - n) ELSE NatStr(n)

(***************************************************************************)
(* Version model.                                                          *)
(***************************************************************************)
STABLE == <<"s", "t", "a", "b", "l", "e">>
LEGACY == <<"l", "e", "g", "a", "c", "y">>
EXPERIMENTAL == <<"e", "x", "p", "e", "r", "i", "m", "e", "n", "t", "a", "l">>

\* enum VersionState: the member values
VersionStateValues == {STABLE, LEGACY, EXPERIMENTAL}

\* VersionState(text): lookup by value
VersionState(text) ==
    IF text \in VersionStateValues
    THEN [ok |-> TRUE, value |-> text]
    ELSE [ok |-> FALSE, error |-> [type |-> "ValueError", kind |-> "invalid_state"]]

\* __str__ with the patch state printed in the place of the minor state
SemverXStrSwapped(v) ==
    Join(<<IntStr(v.major), v.major_state, IntStr(v.minor), v.patch_state,
           IntStr(v.patch), v.patch_state>>, ".")

\* SemverX.__str__
SemverXStr(v) ==
    Join(<<IntStr(v.major), v.major_state, IntStr(v.minor), v.minor_state,
           IntStr(v.patch), v.patch_state>>, ".")

\* SemverX.parse
SemverXParse(version_str) ==
    LET parts == Split(version_str, ".")
    IN  IF Len(parts) # 6
        THEN [ok |-> FALSE, error |-> [type |-> "ValueError", kind |-> "wrong_token_count"]]
        ELSE LET fields == <<IntParse(parts[1]), VersionState(parts[2]),
                             IntParse(parts[3]), VersionState(parts[4]),
                             IntParse(parts[5]), VersionState(parts[6])>>
                 bad    == {i \in 1..6 : ~fields[i].ok}
             IN  IF bad # {}
                 THEN [ok |-> FALSE,
                       error |-> fields[CHOOSE i \in bad : \A j \in bad : i <= j].error]
                 ELSE [ok |-> TRUE,
                       value |-> [major |-> fields[1].value, major_state |-> fields[2].value,
                                  minor |-> fields[3].value, minor_state |-> fields[4].value,
                                  patch |-> fields[5].value, patch_state |-> fields[6].value]]

(***************************************************************************)
(* Fault state ladder.                                                     *)
(***************************************************************************)
CLEAN == 0
LOW_WARNING == 1
MEDIUM_WARNING == 3
HIGH_WARNING == 5
LOW_DANGER == 6
CRITICAL_DANGER == 11
LOW_PANIC == 12
SYSTEM_PANIC == 17

\* enum FaultState: the member values
FaultStateValues ==
    {CLEAN, LOW_WARNING, MEDIUM_WARNING, HIGH_WARNING, LOW_DANGER,
     CRITICAL_DANGER, LOW_PANIC, SYSTEM_PANIC}

\* FaultState(x): lookup by value; a value that names no member is a ValueError
FaultState(x) ==
    IF x \in FaultStateValues
    THEN [ok |-> TRUE, value |-> x]
    ELSE [ok |-> FALSE, error |-> [type |-> "ValueError", kind |-> "invalid_fault_state"]]


\* the check written with > : SYSTEM_PANIC itself passes
IsBlockingAbove(fault_state) == fault_state > SYSTEM_PANIC

\* the check left out
IsBlockingNever(fault_state) == FALSE

\* FaultState.SYSTEM_PANIC.value, the threshold of the check in Registry.fetch
IsBlocking(fault_state) == fault_state >= SYSTEM_PANIC

(***************************************************************************)
(* The remote registry.                                                    *)
(***************************************************************************)
PKG_A == <<"a">>
PKG_B == <<"b">>
PKG_C == <<"c">>
\* an identifier the registry does not know
PKG_UNKNOWN == <<"z">>

\* a scoped identifier, which begins with "@" like "@obinexus/core"
PKG_SCOPED == <<"@", "s">>

Ids == {PKG_A, PKG_B, PKG_C}

\* the packages the registry holds
RegIds == Ids \cup {PKG_SCOPED}

\* six-slot version ranges: "2.stable.*.stable.*.stable" and
\* "2.legacy.*.stable.*.stable"
RANGE_STABLE == Join(<<<<"2">>, STABLE, <<"*">>, STABLE, <<"*">>, STABLE>>, ".")
RANGE_LEGACY == Join(<<<<"2">>, LEGACY, <<"*">>, STABLE, <<"*">>, STABLE>>, ".")

\* the version ranges a caller asks for
Ranges == {RANGE_STABLE, RANGE_LEGACY}

\* a dependency declaration "id@range"
Decl(id, range) == id \o <<"@">> \o range

\* tarball contents the remote may serve for any request
Bytes == {"tarball", "other"}

\* hashlib.sha256(data).hexdigest(): lower-case hex, one digest per content
Sha256Hex(data) == IF data = "tarball" THEN <<"a", "b">> ELSE <<"c", "d">>

VERSION_OK == Join(<<<<"2">>, STABLE, <<"1">>, STABLE, <<"0">>, STABLE>>, ".")
VERSION_SHORT == <<"1", ".", "0", ".", "0">>

VersionTexts == {VERSION_OK, VERSION_SHORT}

\* dependency declarations per package: none, a chain, a diamond, a cycle
GraphNone == [id \in Ids |-> <<>>]
GraphChain ==
    [id \in Ids |-> IF id = PKG_A THEN <<Decl(PKG_B, <<"*">>)>>
                    ELSE IF id = PKG_B THEN <<Decl(PKG_C, <<"1">>)>>
                    ELSE <<>>]
GraphDiamond ==
    [id \in Ids |-> IF id = PKG_A THEN <<Decl(PKG_B, <<"*">>), Decl(PKG_C, <<"*">>)>>
                    ELSE IF id = PKG_B THEN <<Decl(PKG_C, <<"*">>)>>
                    ELSE <<>>]
GraphCycle ==
    [id \in Ids |-> IF id = PKG_A THEN <<Decl(PKG_B, <<"*">>)>>
                    ELSE IF id = PKG_B THEN <<Decl(PKG_C, <<"*">>)>>
                    ELSE <<Decl(PKG_A, <<"*">>)>>]

\* a dependency on the scoped package: "@s@*"
GraphScoped ==
    [id \in Ids |-> IF id = PKG_A THEN <<Decl(PKG_SCOPED, <<"*">>)>> ELSE <<>>]

Graphs == {GraphNone, GraphChain, GraphDiamond, GraphCycle, GraphScoped}

\* the declarations of a package in a graph; the scoped package declares none
DepsIn(g, id) == IF id \in DOMAIN g THEN g[id] ELSE <<>>

FaultValues == 0..MaxFault

\* the JSON object the registry answers for one package; the keys
\* fault_state and dependencies are optional (data.get with a default)
PackageData(id, deps, version, fault) ==
    LET base == [id |-> id, version |-> version, name |-> id, tarball_url |-> id,
                 checksum |-> Sha256Hex("tarball")]
        withDeps == IF deps = <<>> THEN base
                    ELSE [k \in DOMAIN base \cup {"dependencies"} |->
                             IF k = "dependencies" THEN deps ELSE base[k]]
    IN  IF fault.present
        THEN [k \in DOMAIN withDeps \cup {"fault_state"} |->
                 IF k = "fault_state" THEN fault.value ELSE withDeps[k]]
        ELSE withDeps

FaultOptions ==
    {[present |-> TRUE, value |-> x] : x \in FaultValues}
        \cup {[present |-> FALSE, value |-> 0]}

\* a registry in which package `odd` carries the fault report and version text
\* under test and every other package is clean
World(g, odd, fault, version) ==
    [id \in RegIds |->
        IF id = odd THEN PackageData(id, DepsIn(g, id), version, fault)
        ELSE PackageData(id, DepsIn(g, id), VERSION_OK,
                         [present |-> TRUE, value |-> CLEAN])]

Worlds ==
    {World(g, odd, f, v) : g \in Graphs, odd \in Ids, f \in FaultOptions, v \in VersionTexts}

\* dict.get(key, default)
DataGet(data, key, default) == IF key \in DOMAIN data THEN data[key] ELSE default

\* what the registry can answer to GET /packages/<id>
FetchResponses(package_id) ==
    IF package_id \in DOMAIN reg
    THEN {[status_code |-> 200, data |-> reg[package_id]],
          [status_code |-> 404, data |-> <<>>],
          [status_code |-> 500, data |-> <<>>]}
    ELSE {[status_code |-> 404, data |-> <<>>]}

(***************************************************************************)
(* Registry.fetch, from the response on.                                   *)
(***************************************************************************)
Raise(type, kind) == [ok |-> FALSE, error |-> [type |-> type, kind |-> kind]]

fetch(package_id, response) ==
    IF response.status_code = 404 THEN Raise("ResolutionError", "not_found")
    ELSE IF response.status_code # 200 THEN Raise("ResolutionError", "fetch_failed")
    ELSE LET data        == response.data
             fault_state == FaultState(DataGet(data, "fault_state", 0))
             version     == SemverXParse(data.version)
         IN  IF ~fault_state.ok THEN fault_state
             ELSE IF IsBlocking(fault_state.value) THEN Raise("ResolutionError", "panic")
             ELSE IF ~version.ok THEN version
             ELSE [ok |-> TRUE,
                   value |-> [id |-> data.id,
                              version |-> version.value,
                              name |-> data.name,
                              tarball_url |-> data.tarball_url,
                              dependencies |-> DataGet(data, "dependencies", <<>>),
                              checksum |-> data.checksum,
                              fault_state |-> fault_state.value]]

\* the comparison left out: every artifact passes
verify_checksum_unchecked(package, tarball_data) == [ok |-> TRUE]

\* Registry._verify_checksum, from the tarball response on
verify_checksum(package, tarball_data) ==
    LET calculated_checksum == Sha256Hex(tarball_data)
    IN  IF calculated_checksum # package.checksum
        THEN [ok |-> FALSE,
              error |-> [type |-> "ResolutionError", kind |-> "checksum_mismatch",
                         id |-> package.id, expected |-> package.checksum,
                         actual |-> calculated_checksum]]
        ELSE [ok |-> TRUE]

\* Response.raise_for_status
raise_for_status(status_code) ==
    IF status_code >= 400 THEN Raise("HTTPError", "status") ELSE [ok |-> TRUE]

(***************************************************************************)
(* Registry.install as a recursion over an explicit call stack.  An        *)
(* exception is caught nowhere, so raising one unwinds every frame.        *)
(***************************************************************************)
subs == <<observers, remote, threads>>

\* no call is in progress and no result is waiting to be looked at
idle == stack = <<>> /\ outcome.state = "idle"

running == stack # <<>>

NoOutcome == [op |-> "none", package_id |-> <<>>, state |-> "idle", result |-> <<>>]

Top == stack[Len(stack)]

SetTop(frame) == [stack EXCEPT ![Len(stack)] = frame]

Frame(package_id, version_range, verify) ==
    [package_id |-> package_id, version_range |-> version_range,
     verify_checksum |-> verify, pc |-> "fetch", package |-> <<>>, dep_idx |-> 1]

\* what the remote may answer to GET <tarball_url>: a tarball, or an error
\* status with its error body
TarballResponses ==
    {[status_code |-> 200, content |-> b] : b \in Bytes}
        \cup {[status_code |-> 503, content |-> "other"]}

Raised(error) == [outcome EXCEPT !.state = "raised", !.result = error]

Returned(value) == [outcome EXCEPT !.state = "returned", !.result = value]

\* registry.install(package_id, version_range, verify_checksum): the call
InstallCall(package_id, version_range, verify) ==
    /\ idle
    /\ stack' = <<Frame(package_id, version_range, verify)>>
    /\ log' = <<>>
    /\ outcome' = [op |-> "install", package_id |-> package_id,
                   state |-> "running", result |-> <<>>]
    /\ UNCHANGED <<reg, subs>>

\* package = self.fetch(package_id, version_range)
InstallFetch ==
    /\ running
    /\ Top.pc = "fetch"
    /\ \E response \in FetchResponses(Top.package_id) :
          LET r == fetch(Top.package_id, response)
          IN  /\ log' = Append(log, [ev |-> "fetch", id |-> Top.package_id,
                                     range |-> Top.version_range, depth |-> Len(stack),
                                     status |-> response.status_code])
              /\ IF r.ok
                 THEN /\ stack' = SetTop([Top EXCEPT
                                     !.package = r.value,
                                     !.pc = IF Top.verify_checksum THEN "verify"
                                            ELSE "download"])
                      /\ UNCHANGED outcome
                 ELSE /\ stack' = <<>>
                      /\ outcome' = Raised(r.error)
    /\ UNCHANGED <<reg, subs>>

\* if verify_checksum: self._verify_checksum(package)
InstallVerify ==
    /\ running
    /\ Top.pc = "verify"
    /\ \E response \in TarballResponses :
          LET r == verify_checksum(Top.package, response.content)
          IN  /\ log' = Append(log, [ev |-> "verify", id |-> Top.package.id,
                                     depth |-> Len(stack),
                                     digest |-> Sha256Hex(response.content)])
              /\ IF r.ok
                 THEN /\ stack' = SetTop([Top EXCEPT !.pc = "download"])
                      /\ UNCHANGED outcome
                 ELSE /\ stack' = <<>>
                      /\ outcome' = Raised(r.error)
    /\ UNCHANGED <<reg, subs>>

\* download the tarball, raise_for_status, then the install step ("Installing ...")
InstallDownload ==
    /\ running
    /\ Top.pc = "download"
    /\ \E response \in TarballResponses :
          LET r == raise_for_status(response.status_code)
              get == [ev |-> "download", id |-> Top.package.id, depth |-> Len(stack),
                      status |-> response.status_code]
          IN  IF r.ok
              THEN /\ log' = log \o <<get, [ev |-> "installing", id |-> Top.package.id,
                                           depth |-> Len(stack),
                                           content |-> response.content]>>
                   /\ stack' = SetTop([Top EXCEPT !.pc = "deps"])
                   /\ UNCHANGED outcome
              ELSE /\ log' = Append(log, get)
                   /\ stack' = <<>>
                   /\ outcome' = Raised(r.error)
    /\ UNCHANGED <<reg, subs>>

\* for dep in package.dependencies: split the declaration and recurse
InstallDependency ==
    /\ running
    /\ Top.pc = "deps"
    /\ Top.dep_idx <= Len(Top.package.dependencies)
    /\ LET parts == Split(Top.package.dependencies[Top.dep_idx], "@")
       IN  IF Len(parts) # 2
           THEN /\ stack' = <<>>
                /\ outcome' = Raised([type |-> "ValueError", kind |-> "unpack"])
           ELSE IF Len(stack) >= MaxDepth
           THEN /\ stack' = <<>>
                /\ outcome' = Raised([type |-> "RecursionError", kind |-> "depth"])
           ELSE /\ stack' = Append(SetTop([Top EXCEPT !.dep_idx = @ + 1]),
                                   Frame(parts[1], parts[2], Top.verify_checksum))
                /\ UNCHANGED outcome
    /\ UNCHANGED <<reg, log, subs>>

\* return package
InstallReturn ==
    /\ running
    /\ Top.pc = "deps"
    /\ Top.dep_idx > Len(Top.package.dependencies)
    /\ stack' = SubSeq(stack, 1, Len(stack) - 1)
    /\ outcome' = IF Len(stack) = 1 THEN Returned(Top.package) ELSE outcome
    /\ UNCHANGED <<reg, log, subs>>

\* registry.fetch(package_id, version_range) called by the user
FetchCall(package_id, version_range) ==
    /\ idle
    /\ \E response \in FetchResponses(package_id) :
          LET r == fetch(package_id, response)
          IN  /\ log' = <<[ev |-> "fetch", id |-> package_id, range |-> version_range,
                           depth |-> 0, status |-> response.status_code]>>
              /\ outcome' = [op |-> "fetch", package_id |-> package_id,
                             state |-> IF r.ok THEN "returned" ELSE "raised",
                             result |-> IF r.ok THEN r.value ELSE r.error]
    /\ UNCHANGED <<reg, stack, subs>>

\* what the remote can answer to POST /resolve
ResolveResponses(package_id) ==
    {[status_code |-> 200, json |-> [path |-> <<package_id>>, fault_state |-> x]] :
        x \in FaultValues}
        \cup {[status_code |-> 500, json |-> <<>>]}

\* Registry.resolve_dag, from the response on
resolve_dag(response) ==
    LET r == raise_for_status(response.status_code)
    IN  IF r.ok THEN [ok |-> TRUE, value |-> response.json] ELSE r

\* registry.resolve_dag(package_id) called by the user
ResolveDagCall(package_id) ==
    /\ idle
    /\ \E response \in ResolveResponses(package_id) :
          LET r == resolve_dag(response)
          IN  outcome' = [op |-> "resolve_dag", package_id |-> package_id,
                          state |-> IF r.ok THEN "returned" ELSE "raised",
                          result |-> IF r.ok THEN r.value ELSE r.error]
    /\ log' = <<>>
    /\ UNCHANGED <<reg, stack, subs>>

\* the caller has looked at the result (the CLI prints it) and drops it
Discard ==
    /\ stack = <<>>
    /\ outcome.state \in {"returned", "raised"}
    /\ outcome' = NoOutcome
    /\ log' = <<>>
    /\ UNCHANGED <<reg, stack, subs>>

CallIds == RegIds \cup {PKG_UNKNOWN}

(***************************************************************************)
(* Registry.subscribe and Registry.unsubscribe, statement by statement, so *)
(* that callers on several threads can interleave.                         *)
(***************************************************************************)
Threads == {"t1", "t2"}

Callbacks == {"cb1", "cb2"}

\* packages that are subscribed to
SubIds == {PKG_A, PKG_B}

\* the observer ids the remote side can issue, in the order it issues them
ObserverIds == 1..MaxObservers

IdleThread ==
    [pc |-> "idle", op |-> "none", package_id |-> <<>>, callback |-> "",
     observer_id |-> 0, state |-> "idle", result |-> <<>>, before |-> <<>>]

SetThread(t, rec) == [threads EXCEPT ![t] = rec]

\* the function f without the key k (del f[k])
Without(f, k) == [x \in DOMAIN f \ {k} |-> f[x]]

\* the function f with f[k] = v (f[k] = v for a key that may be new)
With(f, k, v) == [x \in DOMAIN f \cup {k} |-> IF x = k THEN v ELSE f[x]]

\* what the remote may answer to POST /subscribe: a fresh observer id while
\* it has one, or an error status
SubscribeResponses ==
    {[status_code |-> 500, observer_id |-> 0]}
        \cup {[status_code |-> 200, observer_id |-> n] :
                 n \in {m \in ObserverIds : m = Cardinality(DOMAIN remote) + 1}}

\* what session.delete may do: answer 200 after revoking, answer an error
\* status, or fail to connect
UnsubscribeResponses == {"ok", "error_status", "connection_error"}

\* registry.subscribe(package_id, callback): the call
SubscribeCall(t, package_id, callback) ==
    /\ threads[t].pc = "idle"
    /\ threads' = SetThread(t, [IdleThread EXCEPT
                      !.pc = "sub_check", !.op = "subscribe", !.state = "running",
                      !.package_id = package_id, !.callback = callback,
                      !.before = observers])
    /\ UNCHANGED <<reg, stack, log, outcome, observers, remote>>

\* if package_id not in self.observers:
SubscribeCheck(t) ==
    /\ threads[t].pc = "sub_check"
    /\ threads' = SetThread(t, [threads[t] EXCEPT
                      !.pc = IF threads[t].package_id \in DOMAIN observers
                             THEN "sub_append" ELSE "sub_create"])
    /\ UNCHANGED <<reg, stack, log, outcome, observers, remote>>

\* self.observers[package_id] = []
SubscribeCreate(t) ==
    /\ threads[t].pc = "sub_create"
    /\ observers' = With(observers, threads[t].package_id, <<>>)
    /\ threads' = SetThread(t, [threads[t] EXCEPT !.pc = "sub_append"])
    /\ UNCHANGED <<reg, stack, log, outcome, remote>>

\* self.observers[package_id].append(callback)
SubscribeAppend(t) ==
    /\ threads[t].pc = "sub_append"
    /\ IF threads[t].package_id \in DOMAIN observers
       THEN /\ observers' = [observers EXCEPT
                                ![threads[t].package_id] = Append(@, threads[t].callback)]
            /\ threads' = SetThread(t, [threads[t] EXCEPT !.pc = "sub_post"])
       ELSE /\ threads' = SetThread(t, [threads[t] EXCEPT
                              !.pc = "done", !.state = "raised",
                              !.result = [type |-> "KeyError", kind |-> "observers"]])
            /\ UNCHANGED observers
    /\ UNCHANGED <<reg, stack, log, outcome, remote>>

\* response = self.session.post(url, ...); raise unless 200; return observer_id
SubscribePost(t) ==
    /\ threads[t].pc = "sub_post"
    /\ \E response \in SubscribeResponses :
          IF response.status_code # 200
          THEN /\ threads' = SetThread(t, [threads[t] EXCEPT
                                 !.pc = "done", !.state = "raised",
                                 !.result = [type |-> "Exception",
                                             kind |-> "failed_to_subscribe"]])
               /\ UNCHANGED remote
          ELSE /\ remote' = With(remote, response.observer_id,
                                 [package_id |-> threads[t].package_id,
                                  state |-> "registered"])
               /\ threads' = SetThread(t, [threads[t] EXCEPT
                                 !.pc = "done", !.state = "returned",
                                 !.observer_id = response.observer_id,
                                 !.result = response.observer_id])
    /\ UNCHANGED <<reg, stack, log, outcome, observers>>

\* registry.unsubscribe(package_id, observer_id): the call
UnsubscribeCall(t, package_id, observer_id) ==
    /\ threads[t].pc = "idle"
    /\ threads' = SetThread(t, [IdleThread EXCEPT
                      !.pc = "unsub_delete", !.op = "unsubscribe", !.state = "running",
                      !.package_id = package_id, !.observer_id = observer_id,
                      !.before = observers])
    /\ UNCHANGED <<reg, stack, log, outcome, observers, remote>>

\* self.session.delete(url): the response is not looked at
UnsubscribeDelete(t) ==
    /\ threads[t].pc = "unsub_delete"
    /\ \E response \in UnsubscribeResponses :
          /\ remote' = IF response = "ok" /\ threads[t].observer_id \in DOMAIN remote
                       THEN [remote EXCEPT ![threads[t].observer_id].state = "revoked"]
                       ELSE remote
          /\ threads' = SetThread(t,
                 IF response = "connection_error"
                 THEN [threads[t] EXCEPT
                          !.pc = "done", !.state = "raised",
                          !.result = [type |-> "ConnectionError", kind |-> "delete"]]
                 ELSE [threads[t] EXCEPT !.pc = "unsub_check"])
    /\ UNCHANGED <<reg, stack, log, outcome, observers>>

\* if package_id in self.observers:
UnsubscribeCheck(t) ==
    /\ threads[t].pc = "unsub_check"
    /\ threads' = SetThread(t,
           IF threads[t].package_id \in DOMAIN observers
           THEN [threads[t] EXCEPT !.pc = "unsub_del"]
           ELSE [threads[t] EXCEPT !.pc = "done", !.state = "returned"])
    /\ UNCHANGED <<reg, stack, log, outcome, observers, remote>>

\* del self.observers[package_id]
UnsubscribeDel(t) ==
    /\ threads[t].pc = "unsub_del"
    /\ IF threads[t].package_id \in DOMAIN observers
       THEN /\ observers' = Without(observers, threads[t].package_id)
            /\ threads' = SetThread(t, [threads[t] EXCEPT
                              !.pc = "done", !.state = "returned"])
       ELSE /\ threads' = SetThread(t, [threads[t] EXCEPT
                              !.pc = "done", !.state = "raised",
                              !.result = [type |-> "KeyError", kind |-> "observers"]])
            /\ UNCHANGED observers
    /\ UNCHANGED <<reg, stack, log, outcome, remote>>

\* the caller has looked at the result of its call and makes ready for the next
ThreadDiscard(t) ==
    /\ threads[t].pc = "done"
    /\ threads' = SetThread(t, IdleThread)
    /\ UNCHANGED <<reg, stack, log, outcome, observers, remote>>

\* no subscribe or unsubscribe call is in progress or waiting to be looked at
AllThreadsIdle == \A t \in Threads : threads[t].pc = "idle"

\* a subscribe may start while the package's callback list is below the bound
MaySubscribe(package_id) ==
    package_id \in DOMAIN observers => Len(observers[package_id]) < MaxCallbacks

InitRest ==
    /\ stack = <<>>
    /\ log = <<>>
    /\ outcome = NoOutcome
    /\ observers = <<>>
    /\ remote = <<>>
    /\ threads = [t \in Threads |-> IdleThread]

Init ==
    /\ reg \in Worlds
    /\ InitRest

Next ==
    \/ \E id \in CallIds, range \in Ranges, verify \in BOOLEAN : InstallCall(id, range, verify)
    \/ InstallFetch
    \/ InstallVerify
    \/ InstallDownload
    \/ InstallDependency
    \/ InstallReturn
    \/ \E id \in CallIds, range \in Ranges : FetchCall(id, range)
    \/ \E id \in CallIds : ResolveDagCall(id)
    \/ Discard

Spec == Init /\ [][Next]_vars

(***************************************************************************)
(* The subscription table used by one caller at a time.                    *)
(***************************************************************************)
InitSub ==
    /\ reg = World(GraphNone, PKG_A, [present |-> TRUE, value |-> CLEAN], VERSION_OK)
    /\ InitRest

ThreadStep(t) ==
    \/ SubscribeCheck(t)
    \/ SubscribeCreate(t)
    \/ SubscribeAppend(t)
    \/ SubscribePost(t)
    \/ UnsubscribeDelete(t)
    \/ UnsubscribeCheck(t)
    \/ UnsubscribeDel(t)
    \/ ThreadDiscard(t)

NextSub ==
    \/ \E t \in Threads, id \in SubIds, cb \in Callbacks :
          AllThreadsIdle /\ MaySubscribe(id) /\ SubscribeCall(t, id, cb)
    \/ \E t \in Threads, id \in SubIds, oid \in ObserverIds :
          AllThreadsIdle /\ UnsubscribeCall(t, id, oid)
    \/ \E t \in Threads : ThreadStep(t)

SpecSub == InitSub /\ [][NextSub]_vars

(***************************************************************************)
(* The version model and the integrity verifier called on their own:       *)
(* SemverX.parse, str(SemverX) and Registry._verify_checksum applied to    *)
(* inputs drawn from bounded sets, and parse and str applied to each       *)
(* other's result.                                                         *)
(***************************************************************************)
\* texts of a number slot: plain, two digits, leading zero, signed, blank
\* before, underscore, no number, empty
NumberTokens ==
    {<<"0">>, <<"2">>, <<"1", "0">>, <<"0", "2">>, <<"-", "1">>, <<"+", "2">>,
     <<" ", "3">>, <<"1", "_", "0">>, <<"x">>, <<>>}

\* texts of a state slot: the three states, another word, empty
StateTokens == VersionStateValues \cup {<<"b", "e", "t", "a">>, <<>>}

BaseTokens == <<<<"2">>, STABLE, <<"1">>, STABLE, <<"0">>, STABLE>>

\* version texts: the base text with one slot replaced, and texts with
\* five, seven, three and no slots
ParseTexts ==
    {Join([BaseTokens EXCEPT ![k] = tok], ".") :
        k \in {1, 3, 5}, tok \in NumberTokens}
    \cup {Join([BaseTokens EXCEPT ![k] = tok], ".") :
             k \in {2, 4, 6}, tok \in StateTokens}
    \cup {Join(SubSeq(BaseTokens, 1, 5), "."), Join(BaseTokens \o <<<<"0">>>>, "."),
          VERSION_SHORT, <<>>}

\* SemverX values with unsigned numbers and valid states
Versions ==
    [major : 0..MaxNumber, major_state : VersionStateValues,
     minor : 0..MaxNumber, minor_state : VersionStateValues,
     patch : 0..MaxNumber, patch_state : VersionStateValues]

\* declared checksums: the digests in lower, upper and mixed case, and a
\* digest of no content
Checksums ==
    {<<"a", "b">>, <<"A", "B">>, <<"a", "B">>, <<"c", "d">>, <<"C", "D">>, <<"e", "f">>}

\* SemverX.parse(text) called by the user
ParseCall(text) ==
    /\ idle
    /\ LET r == SemverXParse(text)
       IN  outcome' = [op |-> "parse", package_id |-> <<>>,
                       state |-> IF r.ok THEN "returned" ELSE "raised",
                       result |-> IF r.ok THEN r.value ELSE r.error]
    /\ log' = <<[ev |-> "parse", text |-> text]>>
    /\ UNCHANGED <<reg, stack, subs>>

\* str(v) called by the user
StrCall(v) ==
    /\ idle
    /\ outcome' = [op |-> "str", package_id |-> <<>>, state |-> "returned",
                   result |-> SemverXStr(v)]
    /\ log' = <<[ev |-> "str", value |-> v]>>
    /\ UNCHANGED <<reg, stack, subs>>

\* str(SemverX.parse(text)): str of the version that parse returned
StrOfParsed ==
    /\ stack = <<>>
    /\ outcome.op = "parse" /\ outcome.state = "returned" /\ Len(log) = 1
    /\ outcome' = [outcome EXCEPT !.op = "str", !.result = SemverXStr(outcome.result)]
    /\ log' = Append(log, [ev |-> "str", value |-> outcome.result])
    /\ UNCHANGED <<reg, stack, subs>>

\* SemverX.parse(str(v)): parse of the text that str returned
ParseOfStr ==
    /\ stack = <<>>
    /\ outcome.op = "str" /\ Len(log) = 1
    /\ LET r == SemverXParse(outcome.result)
       IN  outcome' = [op |-> "parse", package_id |-> <<>>,
                       state |-> IF r.ok THEN "returned" ELSE "raised",
                       result |-> IF r.ok THEN r.value ELSE r.error]
    /\ log' = Append(log, [ev |-> "parse", text |-> outcome.result])
    /\ UNCHANGED <<reg, stack, subs>>

\* registry._verify_checksum(package) for a package with the given checksum,
\* the remote serving the given content
VerifyCall(checksum, content) ==
    /\ idle
    /\ LET r == verify_checksum([id |-> PKG_A, checksum |-> checksum], content)
       IN  outcome' = [op |-> "verify", package_id |-> PKG_A,
                       state |-> IF r.ok THEN "returned" ELSE "raised",
                       result |-> IF r.ok THEN <<>> ELSE r.error]
    /\ log' = <<[ev |-> "verify_call", checksum |-> checksum,
                 digest |-> Sha256Hex(content)]>>
    /\ UNCHANGED <<reg, stack, subs>>

NextPure ==
    \/ idle /\ \E text \in ParseTexts : ParseCall(text)
    \/ idle /\ \E v \in Versions : StrCall(v)
    \/ StrOfParsed
    \/ ParseOfStr
    \/ idle /\ \E checksum \in Checksums, content \in Bytes : VerifyCall(checksum, content)
    \/ Discard

SpecPure == InitSub /\ [][NextPure]_vars

(***************************************************************************)
(* The subscription table used by several threads at once, all of them on  *)
(* the same package: a call may start while another is in progress.        *)
(***************************************************************************)
NextConc ==
    \/ \E t \in Threads, cb \in Callbacks :
          MaySubscribe(PKG_A) /\ SubscribeCall(t, PKG_A, cb)
    \/ \E t \in Threads, oid \in ObserverIds : UnsubscribeCall(t, PKG_A, oid)
    \/ \E t \in Threads : ThreadStep(t)

SpecConc == InitSub /\ [][NextConc]_vars

(***************************************************************************)
(* Properties.                                                             *)
(***************************************************************************)
\* the fault value the registry reports for a package
ReportedFault(id) == DataGet(reg[id], "fault_state", 0)

\* the identifiers a package declares as dependencies
DeclaredDeps(id) ==
    LET deps == DataGet(reg[id], "dependencies", <<>>)
    IN  {d \in RegIds :
            \E k \in DOMAIN deps :
                /\ Len(deps[k]) > Len(d)
                /\ SubSeq(deps[k], 1, Len(d) + 1) = d \o <<"@">>}

InstallEvents == {i \in DOMAIN log : log[i].ev = "installing"}

FetchEvents == {i \in DOMAIN log : log[i].ev = "fetch"}

\* the registry's dependency declarations form the cycle a -> b -> c -> a
CycleWorld == \A id \in Ids : DataGet(reg[id], "dependencies", <<>>) = GraphCycle[id]

\* the first request of the current call was answered 200 with fault state 17
RootPanicReported ==
    /\ log # <<>>
    /\ log[1].ev = "fetch"
    /\ log[1].status = 200
    /\ ReportedFault(log[1].id) = SYSTEM_PANIC

PanicError == [type |-> "ResolutionError", kind |-> "panic"]

\* C1: when the registry reports fault state 17 for the root package, fetch,
\* and install of that root, has failed with the panic ResolutionError and
\* the root's fetch is the only request made: no dependency was fetched and
\* no tarball was requested.
C1_PanicBeforeDependencies ==
    (outcome.op \in {"install", "fetch"} /\ RootPanicReported) =>
        /\ Len(log) = 1
        /\ stack = <<>>
        /\ outcome.state = "raised"
        /\ outcome.result = PanicError

\* an install whose root declares dependencies was refused for the root's panic
C1_Witness ==
    /\ outcome.op = "install"
    /\ RootPanicReported
    /\ DeclaredDeps(log[1].id) # {}
    /\ outcome.state = "raised"

\* C2: when the remote registration of subscribe fails, the callbacks of the
\* package are what they were before the call.
CallbacksOf(table, package_id) ==
    IF package_id \in DOMAIN table THEN table[package_id] ELSE <<>>

C2_RollbackOnFailure ==
    \A t \in Threads :
        (/\ threads[t].op = "subscribe"
         /\ threads[t].pc = "done"
         /\ threads[t].state = "raised"
         /\ threads[t].result.kind = "failed_to_subscribe") =>
            CallbacksOf(observers, threads[t].package_id)
                = CallbacksOf(threads[t].before, threads[t].package_id)

\* C3: no package reaches its install step before every dependency it
\* declares has been installed.
C3_DependenciesFirst ==
    outcome.op = "install" =>
        \A i \in InstallEvents :
            \A d \in DeclaredDeps(log[i].id) :
                \E j \in InstallEvents : j < i /\ log[j].id = d

\* the request at position i of the log verified an artifact whose digest
\* differs from the package's checksum
MismatchAt(i) ==
    /\ log[i].ev = "verify"
    /\ log[i].digest # reg[log[i].id].checksum

\* C4: with verify_checksum enabled, an artifact whose digest differs from
\* package.checksum ends install with the checksum-mismatch error that names
\* the expected and the actual digest, and nothing follows the verification:
\* the package is neither downloaded nor installed.
C4_ChecksumMismatchAborts ==
    \A i \in DOMAIN log :
        MismatchAt(i) =>
            /\ i = Len(log)
            /\ stack = <<>>
            /\ outcome.state = "raised"
            /\ outcome.result =
                   [type |-> "ResolutionError", kind |-> "checksum_mismatch",
                    id |-> log[i].id, expected |-> reg[log[i].id].checksum,
                    actual |-> log[i].digest]

\* a dependency failed verification after its dependent went through
C4_Witness ==
    /\ outcome.op = "install"
    /\ log # <<>>
    /\ MismatchAt(Len(log))
    /\ log[Len(log)].depth = 2
    /\ outcome.state = "raised"

C6_FetchAtMostOnce ==
    (outcome.op = "install" /\ ~CycleWorld) =>
        \A i, j \in FetchEvents : log[i].id = log[j].id => i = j

\* C7: after subscribe returned an observer id for a package and unsubscribe
\* was called with both and has returned, the table has no entry for the
\* package and the remote side holds the observer id as revoked.
C7_SubscriptionSymmetry ==
    \A t \in Threads :
        (/\ threads[t].op = "unsubscribe"
         /\ threads[t].pc = "done"
         /\ threads[t].state = "returned"
         /\ threads[t].observer_id \in DOMAIN remote
         /\ remote[threads[t].observer_id].package_id = threads[t].package_id) =>
            /\ threads[t].package_id \notin DOMAIN observers
            /\ remote[threads[t].observer_id].state = "revoked"

\* the greatest named threshold that is <= x
NearestThreshold(x) ==
    CHOOSE v \in FaultStateValues :
        v <= x /\ \A w \in FaultStateValues : w <= x => w <= v

\* C8: for every fault value x in 0..17 the registry reports, fetch attaches
\* the greatest named threshold <= x; a value below 17 is returned, not
\* rejected.
C8_NearestLowerThreshold ==
    (/\ outcome.op = "fetch"
     /\ log # <<>>
     /\ log[1].status = 200
     /\ reg[log[1].id].version = VERSION_OK
     /\ ReportedFault(log[1].id) < SYSTEM_PANIC) =>
        /\ outcome.state = "returned"
        /\ outcome.result.fault_state = NearestThreshold(ReportedFault(log[1].id))

\* C9: no package whose reported fault value is >= 17 has been returned by
\* fetch, to the user or to install, or has reached the install step.
C9_NoBlockingPackage ==
    /\ (outcome.op = "fetch" /\ outcome.state = "returned") =>
           ReportedFault(outcome.result.id) < SYSTEM_PANIC
    /\ (outcome.op = "install" /\ outcome.state = "returned") =>
           ReportedFault(outcome.result.id) < SYSTEM_PANIC
    /\ \A k \in DOMAIN stack :
           stack[k].pc # "fetch" => ReportedFault(stack[k].package.id) < SYSTEM_PANIC
    /\ \A i \in InstallEvents : ReportedFault(log[i].id) < SYSTEM_PANIC

\* a dependency reported with a fault value above 17 was fetched and refused
C9_Witness ==
    /\ outcome.op = "install"
    /\ outcome.state = "raised"
    /\ Len(log) > 1
    /\ log[Len(log)].ev = "fetch"
    /\ log[Len(log)].status = 200
    /\ ReportedFault(log[Len(log)].id) > SYSTEM_PANIC

\* C10: resolve_dag hands the caller no result whose fault state is
\* blocking.
C10_NoBlockingResolution ==
    (outcome.op = "resolve_dag" /\ outcome.state = "returned") =>
        outcome.result.fault_state < SYSTEM_PANIC

\* every slot of the six-slot range is the wildcard or equals the slot of the
\* version's text
RangeAdmits(version, range) ==
    LET r == Split(range, ".")
        v == Split(SemverXStr(version), ".")
    IN  /\ Len(r) = 6
        /\ \A i \in 1..6 : r[i] = <<"*">> \/ r[i] = v[i]

\* C11: every Package that fetch(packageId, versionRange) returns has a
\* version the range admits.
C11_ReturnedVersionInRange ==
    (outcome.op = "fetch" /\ outcome.state = "returned") =>
        RangeAdmits(outcome.result.version, log[1].range)

\* the list s is an initial part of the list t
IsPrefix(s, t) == Len(s) <= Len(t) /\ SubSeq(t, 1, Len(s)) = s

\* no call has failed on the table itself
NoKeyError ==
    \A t \in Threads :
        threads[t].state = "raised" => threads[t].result.type # "KeyError"

\* a package's callback list only grows for as long as the package keeps its
\* entry: no callback that a subscribe appended is dropped by another
\* subscribe
NoLostCallback ==
    \A p \in DOMAIN observers \cap DOMAIN observers' :
        IsPrefix(observers[p], observers'[p])

\* C12: under any interleaving of subscribe and unsubscribe calls for one
\* package, no callback is lost through the check-then-create of the
\* package's list, and no call fails because of the interleaving.
C12_Serialized == []NoKeyError /\ [][NoLostCallback]_vars

\* a number token that is an unsigned integer: digits and nothing else
IsUnsignedToken(tok) == tok # <<>> /\ \A i \in 1..Len(tok) : IsDigit(tok[i])

\* six dot-separated tokens, unsigned integers in slots 1, 3, 5 and states
\* in slots 2, 4, 6
ValidVersionText(text) ==
    LET parts == Split(text, ".")
    IN  /\ Len(parts) = 6
        /\ \A k \in {1, 3, 5} : IsUnsignedToken(parts[k])
        /\ \A k \in {2, 4, 6} : parts[k] \in VersionStateValues

\* C13: for every valid six-slot version text s, str(SemverX.parse(s)) = s.
C13_TextRoundTrip ==
    (log # <<>> /\ log[1].ev = "parse" /\ ValidVersionText(log[1].text)) =>
        /\ outcome.state = "returned"
        /\ (Len(log) = 2 /\ outcome.op = "str") => outcome.result = log[1].text

\* C14: for every valid SemverX value v, SemverX.parse(str(v)) = v.
C14_ValueRoundTrip ==
    (Len(log) = 2 /\ log[1].ev = "str" /\ outcome.op = "parse") =>
        /\ outcome.state = "returned"
        /\ outcome.result = log[1].value

\* a version with a two-digit number and three different states went
\* through str and parse
C14_Witness ==
    /\ Len(log) = 2
    /\ log[1].ev = "str"
    /\ outcome.op = "parse"
    /\ log[1].value.major = MaxNumber
    /\ log[1].value.major_state = EXPERIMENTAL
    /\ log[1].value.minor_state = LEGACY
    /\ log[1].value.patch_state = STABLE

\* C15: SemverX.parse succeeds exactly on the valid six-slot texts; on every
\* other text it fails with a parse error.
C15_ParseAcceptsExactlyValid ==
    (outcome.op = "parse" /\ Len(log) = 1) =>
        /\ outcome.state = "returned" <=> ValidVersionText(log[1].text)
        /\ outcome.state = "raised" => outcome.result.type = "ValueError"

\* the hex letters in upper and in lower case
HexUpper == <<"A", "B", "C", "D", "E", "F">>
HexLower == <<"a", "b", "c", "d", "e", "f">>

\* a hex string with its letters in lower case
LowerHex(s) ==
    [i \in DOMAIN s |->
        IF \E k \in 1..6 : HexUpper[k] = s[i]
        THEN HexLower[CHOOSE k \in 1..6 : HexUpper[k] = s[i]]
        ELSE s[i]]

\* C16: checksum verification accepts an artifact exactly when its SHA-256
\* hex digest equals package.checksum compared without regard to letter case.
C16_CaseInsensitiveChecksum ==
    outcome.op = "verify" =>
        (outcome.state = "returned"
            <=> LowerHex(log[1].checksum) = LowerHex(log[1].digest))

\* an observer id issued for the package is still registered on the remote side
StillRegistered(package_id) ==
    \E oid \in DOMAIN remote :
        remote[oid].package_id = package_id /\ remote[oid].state = "registered"

\* the table holds callbacks for the package
HoldsCallbacks(package_id) ==
    package_id \in DOMAIN observers /\ observers[package_id] # <<>>

\* C17: after any sequence of subscribe and unsubscribe calls, the table
\* holds callbacks for a package if and only if an observer id issued for
\* that package is still registered on the remote side.
C17_TableMatchesRemote ==
    (\A t \in Threads : threads[t].pc \in {"idle", "done"}) =>
        \A p \in SubIds : HoldsCallbacks(p) <=> StillRegistered(p)

\* C18: with verify_checksum enabled, the content that install downloaded
\* for a package's install step has the digest that package.checksum names.
C18_InstalledIsVerified ==
    \A i \in InstallEvents :
        (i > 2 /\ log[i - 2].ev = "verify") =>
            Sha256Hex(log[i].content) = reg[log[i].id].checksum

\* the ranges that dependency declarations name
DeclRanges == {<<"*">>, <<"1">>}

\* C19: every recursive install call is for the identifier and the range of
\* the declaration the caller is at, in declaration order and with the
\* caller's verify_checksum, and no declaration, scoped identifiers
\* included, makes install fail on the declaration itself.
C19_DependenciesAsDeclared ==
    /\ \A k \in 2..Len(stack) :
          LET parent == stack[k - 1]
              child  == stack[k]
          IN  /\ \E d \in RegIds, r \in DeclRanges :
                    /\ parent.package.dependencies[parent.dep_idx - 1] = Decl(d, r)
                    /\ child.package_id = d
                    /\ child.version_range = r
              /\ child.verify_checksum = parent.verify_checksum
    /\ (outcome.op = "install" /\ outcome.state = "raised") =>
           outcome.result.kind # "unpack"

============================================================================
